---------------------------- MODULE Spec2Model ----------------------------
(***************************************************************************)
(* A model of interesting_topography.py: importing Ordnance Survey .asc    *)
(* tiles as HeightCell objects, merging them into one height array         *)
(* (getDimensions, combineCells), scaling it to 0-255 (scaleHeightData)    *)
(* and handing it to the image (the tail of makeImage).                    *)
(*                                                                         *)
(* Numbers.  Heights are Python floats; the model draws them from the      *)
(* whole-number floats, written as integers.  After scaleHeightData a      *)
(* height is the real number n/d, kept as the pair <<n, d>> with the       *)
(* common denominator d = heights.max(); <<0, 0>> is 0.0 * inf = NaN.      *)
(* float64 rounding is not modelled: products and quotients are exact.     *)
(* Python lists and numpy axes are 0-based; the model's sequences are      *)
(* 1-based, so Python index i is sequence index i + 1.                     *)
(***************************************************************************)
EXTENDS Integers, Sequences, FiniteSets, TLC

VARIABLES
    pc,             \* "collect", "combined", "scaled", "saved" or "failed"
    err,            \* the exception that ended the run ("" for none)
    height_cells,   \* the list of HeightCell objects built so far
    heights,        \* the combined height array (<<>> before combineCells)
    img             \* the image makeImage creates and fills

vars == <<pc, err, height_cells, heights, img>>

---------------------------------------------------------------------------
(* Bounds of the model *)

MaxCells == 2       \* most HeightCells in one run
MaxLines == 2       \* most data lines of a modelled .asc text
MaxTokens == 2      \* most tokens of a modelled data line, and most ncols/nrows

---------------------------------------------------------------------------
(* Program constants *)

cell_size == 10000
measurement_interval == 50
cell_side == cell_size \div measurement_interval
scale_max == 255

---------------------------------------------------------------------------
(* Python helpers *)

\* int(n/d) for a float quotient: truncation toward zero.
PyInt(n, d) ==
    IF n >= 0 THEN n \div d ELSE -((-n) \div d)

\* n // d on floats: floor division.
PyFloorDiv(n, d) == n \div d

MaxOf(S) == CHOOSE x \in S : \A y \in S : y <= x
MinOf(S) == CHOOSE x \in S : \A y \in S : x <= y

\* A Python list or array axis built by a comprehension: the same sequence,
\* stored as a tuple.
List(s) == s \o <<>>

Range(s) == LET t == List(s) IN {t[i] : i \in 1..Len(t)}

\* Python's None beside a float h: <<>> is None, <<h>> is h.
None == <<>>
Some(h) == <<h>>

\* The concatenation of rows[lo], ..., rows[hi] in order, by halves.
RECURSIVE FlattenRange(_, _, _)
FlattenRange(rows, lo, hi) ==
    IF lo > hi THEN <<>>
    ELSE IF lo = hi THEN rows[lo]
    ELSE FlattenRange(rows, lo, (lo + hi) \div 2)
         \o FlattenRange(rows, ((lo + hi) \div 2) + 1, hi)

---------------------------------------------------------------------------
(* class HeightCell *)

\* flattened with the test of the exclude list inverted.
FlattenedInverted(cell) ==
    LET flat == FlattenRange(cell.heights, 1, Len(cell.heights))
    IN  List([k \in 1..Len(flat) |->
            IF flat[k] \in cell.exclude THEN Some(flat[k]) ELSE None])

\* [item for sublist in self.heights for item in sublist], then
\* [h if h not in self.exclude else None for h in flat]
flattened(cell) ==
    LET flat == FlattenRange(cell.heights, 1, Len(cell.heights))
    IN  List([k \in 1..Len(flat) |->
            IF flat[k] \notin cell.exclude THEN Some(flat[k]) ELSE None])

\* valid_values = list(filter(lambda x: x is not None, self.flattened))
ValidValues(cell) ==
    {v[1] : v \in {w \in Range(flattened(cell)) : w # None}}

\* The fields __init__ sets before it takes max and min.
CellFields(dimensions, hs, exclude) ==
    [xsize |-> dimensions[1], ysize |-> dimensions[2],
     xcorner |-> dimensions[3], ycorner |-> dimensions[4],
     size |-> dimensions[5], heights |-> hs, exclude |-> exclude]

\* max() and min() of an empty list raise ValueError.
HeightCellRaises(dimensions, hs, exclude) ==
    ValidValues(CellFields(dimensions, hs, exclude)) = {}

HeightCell(dimensions, hs, exclude) ==
    LET c == CellFields(dimensions, hs, exclude)
        valid_values == ValidValues(c)
    IN  [xsize |-> c.xsize, ysize |-> c.ysize,
         xcorner |-> c.xcorner, ycorner |-> c.ycorner,
         size |-> c.size, heights |-> hs, exclude |-> exclude,
         max |-> MaxOf(valid_values), min |-> MinOf(valid_values)]

---------------------------------------------------------------------------
(* importAsc *)

\* A line of the file is the sequence of its space-separated tokens; a token
\* is a numeral (num, with its value) or some other text.
Num(v) == [num |-> TRUE, val |-> v]
Word == [num |-> FALSE, val |-> 0]

\* l.split(" "): an empty line splits into one empty token.
Split(l) == IF l = <<>> THEN <<Word>> ELSE l

\* lines[:5] and lines[5:]
HeaderLines(lines) == SubSeq(lines, 1, IF Len(lines) < 5 THEN Len(lines) ELSE 5)
DataLines(lines) == SubSeq(lines, 6, Len(lines))

\* int(l.split(" ")[-1]) and float(token) raise ValueError on other text;
\* unpacking fewer than five dimensions raises ValueError too.
ImportAscRaises(lines) ==
    \/ \E i \in 1..Len(DataLines(lines)) :
          \E j \in 1..Len(Split(DataLines(lines)[i])) :
              ~Split(DataLines(lines)[i])[j].num
    \/ Len(HeaderLines(lines)) < 5
    \/ \E i \in 1..Len(HeaderLines(lines)) :
          ~Split(HeaderLines(lines)[i])[Len(Split(HeaderLines(lines)[i]))].num

AscDimensions(lines) ==
    List([i \in 1..5 |-> Split(lines[i])[Len(Split(lines[i]))].val])

AscHeights(lines) ==
    List([i \in 1..Len(DataLines(lines)) |->
        List([j \in 1..Len(Split(DataLines(lines)[i])) |->
            Split(DataLines(lines)[i])[j].val])])

---------------------------------------------------------------------------
(* getDimensions *)

Corners(cells, axis) ==
    {IF axis = "x" THEN cells[i].xcorner ELSE cells[i].ycorner :
        i \in 1..Len(cells)}

\* max() and min() of an empty list raise ValueError.
GetDimensionsRaises(cells) == cells = <<>>

\* getDimensions with img_height taken from ground_width, as cell_rows is.
getDimensionsSquare(cells) ==
    LET max_x == MaxOf(Corners(cells, "x")) + cell_size
        min_x == MinOf(Corners(cells, "x"))
        min_y == MinOf(Corners(cells, "y"))
        max_y == MaxOf(Corners(cells, "y")) + cell_size
        ground_width == max_x - min_x
    IN  [cell_size |-> cell_size,
         cell_side |-> cell_side,
         cell_rows |-> PyFloorDiv(ground_width, cell_size),
         img_width |-> PyFloorDiv(ground_width * cell_side, cell_size),
         img_height |-> PyFloorDiv(ground_width * cell_side, cell_size),
         min_x |-> min_x,
         min_y |-> min_y,
         max_y |-> max_y]

\* getDimensions with the first cell's corner taken for the minimum.
getDimensionsFirst(cells) ==
    LET max_x == MaxOf(Corners(cells, "x")) + cell_size
        max_y == MaxOf(Corners(cells, "y")) + cell_size
        min_x == cells[1].xcorner
        min_y == cells[1].ycorner
        ground_width == max_x - min_x
        ground_height == max_y - min_y
    IN  [cell_size |-> cell_size,
         cell_side |-> cell_side,
         cell_rows |-> PyFloorDiv(ground_width, cell_size),
         img_width |-> PyFloorDiv(ground_width * cell_side, cell_size),
         img_height |-> PyFloorDiv(ground_height * cell_side, cell_size),
         min_x |-> min_x,
         min_y |-> min_y,
         max_y |-> max_y]

getDimensions(cells) ==
    LET max_x == MaxOf(Corners(cells, "x")) + cell_size
        max_y == MaxOf(Corners(cells, "y")) + cell_size
        min_x == MinOf(Corners(cells, "x"))
        min_y == MinOf(Corners(cells, "y"))
        ground_width == max_x - min_x
        ground_height == max_y - min_y
    IN  [cell_size |-> cell_size,
         cell_side |-> cell_side,
         cell_rows |-> PyFloorDiv(ground_width, cell_size),
         img_width |-> PyFloorDiv(ground_width * cell_side, cell_size),
         img_height |-> PyFloorDiv(ground_height * cell_side, cell_size),
         min_x |-> min_x,
         min_y |-> min_y,
         max_y |-> max_y]

---------------------------------------------------------------------------
(* combineCells *)

\* cell_start_x with the operands of the subtraction exchanged.
CellStartXReversed(cell, dims) ==
    PyInt((dims.min_x - cell.xcorner) * dims.cell_side, dims.cell_size)

\* cell_col = (cell.xcorner - dims["min_x"]) / dims["cell_size"]
\* cell_start_x = int(cell_col * dims["cell_side"])
CellStartX(cell, dims) ==
    PyInt((cell.xcorner - dims.min_x) * dims.cell_side, dims.cell_size)

\* cell_row = (dims["max_y"] - cell.ycorner) / dims["cell_size"] - 1
\* cell_start_y = int(cell_row * dims["cell_side"])
CellStartY(cell, dims) ==
    PyInt((dims.max_y - cell.ycorner - dims.cell_size) * dims.cell_side,
          dims.cell_size)

\* numpy indexing of an axis of length n: i in -n..n-1 is accepted, a
\* negative i counts from the end, anything else raises IndexError.
IndexOk(i, n) == -n <= i /\ i < n

\* np.ones in place of np.zeros.
Ones(h, w) ==
    LET line == List([c \in 1..w |-> 1]) IN List([r \in 1..h |-> line])

\* np.zeros((img_height, img_width))
Zeros(h, w) ==
    LET line == List([c \in 1..w |-> 0]) IN List([r \in 1..h |-> line])

\* Whether some heights_combined[px_row][px_col] = h of this cell raises
\* IndexError.  A row's column indices are consecutive, so they are all
\* accepted exactly when the first and the last are.
WriteRaises(cell, dims) ==
    \E row \in 1..Len(cell.heights) :
        /\ Len(cell.heights[row]) > 0
        /\ \/ ~IndexOk(CellStartY(cell, dims) + row - 1, dims.img_height)
           \/ ~IndexOk(CellStartX(cell, dims), dims.img_width)
           \/ ~IndexOk(CellStartX(cell, dims) + Len(cell.heights[row]) - 1,
                       dims.img_width)

\* The last k in 1..len whose write index start + k - 1 lands on position i
\* (1-based) of an axis of length n, or 0 when there is none.
LastHit(i, start, n, len) ==
    IF i - start >= 1 /\ i - start <= len THEN i - start
    ELSE IF i - start - n >= 1 /\ i - start - n <= len THEN i - start - n
    ELSE 0

\* The two loops over one cell's rows and columns: position (r, c) of the
\* array afterwards holds the last h written there, or what it held before.
\* A row of the array that no row of the cell lands on is left as it was.
WriteCell(raster, cell, dims) ==
    LET sx == CellStartX(cell, dims)
        sy == CellStartY(cell, dims)
        hs == cell.heights
        nrows == Len(hs)
    IN  List([r \in 1..dims.img_height |->
            LET rA == r - sy
                rB == r - sy - dims.img_height
                inA == rA >= 1 /\ rA <= nrows
                inB == rB >= 1 /\ rB <= nrows
            IN  IF ~inA /\ ~inB THEN raster[r]
                ELSE List([c \in 1..dims.img_width |->
                        LET cA == IF inA
                                  THEN LastHit(c, sx, dims.img_width,
                                               Len(hs[rA]))
                                  ELSE 0
                            cB == IF inB
                                  THEN LastHit(c, sx, dims.img_width,
                                               Len(hs[rB]))
                                  ELSE 0
                        IN  IF cA > 0 THEN hs[rA][cA]
                            ELSE IF cB > 0 THEN hs[rB][cB]
                            ELSE raster[r][c]])])

\* for cell in height_cells: ...
RECURSIVE CombineFrom(_, _, _, _)
CombineFrom(raster, cells, dims, i) ==
    IF i > Len(cells) THEN raster
    ELSE CombineFrom(WriteCell(raster, cells[i], dims), cells, dims, i + 1)

CombineCellsRaises(cells) ==
    \/ GetDimensionsRaises(cells)
    \/ \E i \in 1..Len(cells) : WriteRaises(cells[i], getDimensions(cells))

combineCells(cells) ==
    LET dims == getDimensions(cells)
    IN  CombineFrom(Zeros(dims.img_height, dims.img_width), cells, dims, 1)

---------------------------------------------------------------------------
(* scaleHeightData *)

ArrayValues(a) == UNION {Range(a[r]) : r \in 1..Len(a)}

\* heights -= min_height without the test of its sign.
ShiftedAlways(a) ==
    LET min_height == MinOf(ArrayValues(a))
    IN  List([r \in 1..Len(a) |->
            List([c \in 1..Len(a[r]) |-> a[r][c] - min_height])])

\* if min_height < 0: heights -= min_height
Shifted(a) ==
    LET min_height == MinOf(ArrayValues(a))
    IN  IF min_height < 0
        THEN List([r \in 1..Len(a) |->
                List([c \in 1..Len(a[r]) |-> a[r][c] - min_height])])
        ELSE a

\* heights *= 255.0 / heights.max(): numpy divides by 0.0 with a warning,
\* giving inf, and 0.0 * inf is NaN (<<0, 0>>).
scaleHeightData(a) ==
    LET s == Shifted(a)
        new_max == MaxOf(ArrayValues(s))
    IN  List([r \in 1..Len(s) |-> List([c \in 1..Len(s[r]) |->
            <<s[r][c] * scale_max, new_max>>])])

---------------------------------------------------------------------------
(* makeImage: Image.new("L", heights.shape); img.putdata(heights.flatten()) *)

\* heights.shape is (number of rows, number of columns).
Shape(a) == <<Len(a), Len(a[1])>>

\* ndarray.flatten(): row-major.
FlattenArray(a) ==
    List([k \in 1..(Len(a) * Len(a[1])) |->
        a[((k - 1) \div Len(a[1])) + 1][((k - 1) % Len(a[1])) + 1]])

\* Image.new(mode, size) takes size as (width, height).
NewImage(size, data) == [width |-> size[1], height |-> size[2], data |-> data]

\* putdata fills the image row by row from the upper left corner: the pixel
\* in row `row`, column `col` (both 0-based) is data[row * width + col].
Pixel(image, row, col) == image.data[row * image.width + col + 1]

\* importAsc: HeightCell(dimensions, heights, exclude) with exclude = [].
importAsc(lines) == HeightCell(AscDimensions(lines), AscHeights(lines), {})

---------------------------------------------------------------------------
(* The calls, as steps of a run *)

Init ==
    /\ height_cells = <<>>
    /\ heights = <<>>
    /\ img = <<>>
    /\ pc = "collect"
    /\ err = ""

Fail(e) ==
    /\ pc' = "failed"
    /\ err' = e
    /\ UNCHANGED <<height_cells, heights, img>>

\* height_cells.append(HeightCell(dimensions, heights, exclude))
NewHeightCell(dimensions, hs, exclude) ==
    /\ pc = "collect"
    /\ Len(height_cells) < MaxCells
    /\ IF HeightCellRaises(dimensions, hs, exclude)
       THEN Fail("ValueError")
       ELSE /\ height_cells' =
                  Append(height_cells, HeightCell(dimensions, hs, exclude))
            /\ UNCHANGED <<heights, img, pc, err>>

\* extractCellDataFromAscs: height_cells.append(importAsc(asc_file_name))
CallImportAsc(lines) ==
    /\ pc = "collect"
    /\ Len(height_cells) < MaxCells
    /\ IF \/ ImportAscRaises(lines)
          \/ HeightCellRaises(AscDimensions(lines), AscHeights(lines), {})
       THEN Fail("ValueError")
       ELSE /\ height_cells' = Append(height_cells, importAsc(lines))
            /\ UNCHANGED <<heights, img, pc, err>>

\* heights = combineCells(height_cells)
CallCombineCells ==
    /\ pc = "collect"
    /\ IF GetDimensionsRaises(height_cells) THEN Fail("ValueError")
       ELSE IF CombineCellsRaises(height_cells) THEN Fail("IndexError")
       ELSE /\ heights' = combineCells(height_cells)
            /\ pc' = "combined"
            /\ UNCHANGED <<height_cells, img, err>>

\* heights = scaleHeightData(heights)
CallScaleHeightData ==
    /\ pc = "combined"
    /\ heights' = scaleHeightData(heights)
    /\ pc' = "scaled"
    /\ UNCHANGED <<height_cells, img, err>>

\* img = Image.new("L", heights.shape); img.putdata(heights.flatten())
SaveImage ==
    /\ pc = "scaled"
    /\ img' = NewImage(Shape(heights), FlattenArray(heights))
    /\ pc' = "saved"
    /\ UNCHANGED <<height_cells, heights, err>>

---------------------------------------------------------------------------
(* Inputs *)

\* A rows x cols grid of heights: a in the upper right corner, b elsewhere.
Grid(rows, cols, a, b) ==
    List([r \in 1..rows |->
        List([c \in 1..cols |-> IF r = 1 /\ c = cols THEN a ELSE b])])

Args(cols, rows, x, y, hs, exclude) ==
    [dimensions |-> <<cols, rows, x, y, cell_size>>, hs |-> hs,
     exclude |-> exclude]

\* Tiles for the geometry: the marker a tells the tiles apart.
Marker(x, y) == ((x + 2 * y) \div (cell_size \div 2)) + 1

GeometryTiles ==
    {Args(cell_side, cell_side, c[1], c[2],
          Grid(cell_side, cell_side, Marker(c[1], c[2]), -1), {}) :
        c \in {<<0, 0>>, <<cell_size, 0>>, <<0, cell_size>>,
               <<cell_size \div 2, 0>>}}
    \cup {Args(cell_side, cell_side + 1, 0, cell_size,
               Grid(cell_side + 1, cell_side, 7, -1), {}),
          Args(cell_side + 1, cell_side, 0, 0,
               Grid(cell_side, cell_side + 1, 8, -1), {})}

\* Tiles for the scaling, all at corner (0, 0): full tiles that are flat or
\* not, with a negative, zero or positive minimum; a 1 x 2 tile, which
\* leaves the rest of the array at the default; and full tiles whose exclude
\* list names their marker.
ScaleTiles ==
    {Args(cell_side, cell_side, 0, 0,
          Grid(cell_side, cell_side, v[1], v[2]), {}) :
        v \in {<<-10, 10>>, <<5, 10>>, <<5, 5>>, <<0, 0>>, <<-3, -3>>}}
    \cup {Args(2, 1, 0, 0, Grid(1, 2, 10, -10), {})}
    \cup {Args(cell_side, cell_side, 0, 0,
               Grid(cell_side, cell_side, v[1], v[2]), {v[1]}) :
            v \in {<<-10, 10>>, <<10, 5>>}}

\* Arguments for HeightCell alone: small grids, one with rows of unequal
\* length, and exclude lists from none of their values to all of them.
CellArgs ==
    {Args(Len(hs[1]), Len(hs), 0, 0, hs, ex) :
        hs \in {<< <<-9, 0>>, <<5, -9>> >>, << <<5, 0, -9>> >>,
                << <<0>>, <<5, -9>> >>, << <<-9>> >>},
        ex \in {{}, {-9}, {-9, 0}, {-9, 0, 5}}}

\* .asc texts: five header lines "key value" and up to MaxLines data lines
\* of up to MaxTokens tokens; also a text cut short in its header and one
\* whose ncols is not a numeral.
Header(cols, rows) ==
    << <<Word, Num(cols)>>, <<Word, Num(rows)>>, <<Word, Num(0)>>,
       <<Word, Num(0)>>, <<Word, Num(cell_size)>> >>

TokenLines == UNION {[1..k -> {Num(1), Word}] : k \in 0..MaxTokens}

AscData == UNION {[1..n -> TokenLines] : n \in 0..MaxLines}

AscTexts ==
    {Header(cols, rows) \o d :
        cols \in 1..MaxTokens, rows \in 1..MaxLines, d \in AscData}
    \cup {SubSeq(Header(1, 1), 1, 4),
          << <<Word, Word>> >> \o SubSeq(Header(1, 1), 2, 5) \o << <<Num(1)>> >>}

---------------------------------------------------------------------------
(* Specifications *)

\* The whole of makeImage over the geometry tiles.
Next ==
    \/ \E t \in GeometryTiles : NewHeightCell(t.dimensions, t.hs, t.exclude)
    \/ CallCombineCells
    \/ CallScaleHeightData
    \/ SaveImage

Spec == Init /\ [][Next]_vars

\* combineCells and scaleHeightData over the scaling tiles.
NextScale ==
    \/ \E t \in ScaleTiles : NewHeightCell(t.dimensions, t.hs, t.exclude)
    \/ CallCombineCells
    \/ CallScaleHeightData

SpecScale == Init /\ [][NextScale]_vars

\* HeightCell alone.
NextCell ==
    \E t \in CellArgs : NewHeightCell(t.dimensions, t.hs, t.exclude)

SpecCell == Init /\ [][NextCell]_vars

\* importAsc alone.
NextImport ==
    \E lines \in AscTexts : CallImportAsc(lines)

SpecImport == Init /\ [][NextImport]_vars

---------------------------------------------------------------------------
(* Properties of the geometry and of combineCells *)

Dims == getDimensions(height_cells)

StartX(i) == CellStartX(height_cells[i], Dims)
StartY(i) == CellStartY(height_cells[i], Dims)

\* The start indices <<column, row>> of every cell of the list.
Starts == List([i \in 1..Len(height_cells) |-> <<StartX(i), StartY(i)>>])

\* Cell i, starting at st[i], writes to position (r, c) of the array
\* (1-based), by the lengths of its rows.
Covers(st, i, r, c) ==
    /\ r - st[i][2] >= 1
    /\ r - st[i][2] <= Len(height_cells[i].heights)
    /\ c - st[i][1] >= 1
    /\ c - st[i][1] <= Len(height_cells[i].heights[r - st[i][2]])

CoveredValue(st, i, r, c) ==
    height_cells[i].heights[r - st[i][2]][c - st[i][1]]

\* No array position is written by two cells.
NonOverlapping ==
    \A i, j \in 1..Len(height_cells) :
        i < j =>
            \A r \in 1..Len(height_cells[i].heights) :
                LET r2 == r + StartY(i) - StartY(j)
                IN  (r2 >= 1 /\ r2 <= Len(height_cells[j].heights)) =>
                        \/ Len(height_cells[i].heights[r]) = 0
                        \/ Len(height_cells[j].heights[r2]) = 0
                        \/ StartX(i) + Len(height_cells[i].heights[r])
                              <= StartX(j)
                        \/ StartX(j) + Len(height_cells[j].heights[r2])
                              <= StartX(i)

\* Every cell is cell_side x cell_side with corners on the cell_size grid.
FullTilesOnGrid ==
    \A i \in 1..Len(height_cells) :
        /\ height_cells[i].xcorner % cell_size = 0
        /\ height_cells[i].ycorner % cell_size = 0
        /\ Len(height_cells[i].heights) = cell_side
        /\ \A r \in 1..cell_side : Len(height_cells[i].heights[r]) = cell_side

\* No later cell of the list has cell i's corner.
LastAtCorner(i) ==
    \A j \in (i + 1)..Len(height_cells) :
        \/ height_cells[j].xcorner # height_cells[i].xcorner
        \/ height_cells[j].ycorner # height_cells[i].ycorner

\* C1: for cell_side x cell_side tiles with corners on the cell_size grid,
\* img_width = 200 * ((max corner_x - min corner_x) / 10000 + 1), img_height
\* likewise from the y corners, combineCells does not fail, the array has
\* that shape, and the tile at corner (x, y) lies in columns
\* [200 * (x - min_x) / 10000, +200) and rows
\* [200 * ((max_y - y) / 10000 - 1), +200), max_y being the largest corner_y
\* plus cell_size and row 0 the northernmost.
C1_Placement ==
    (height_cells # <<>> /\ FullTilesOnGrid) =>
        LET min_x == MinOf(Corners(height_cells, "x"))
            top_x == MaxOf(Corners(height_cells, "x"))
            min_y == MinOf(Corners(height_cells, "y"))
            top_y == MaxOf(Corners(height_cells, "y"))
            max_y == top_y + cell_size
            width == cell_side * (((top_x - min_x) \div cell_size) + 1)
            height == cell_side * (((top_y - min_y) \div cell_size) + 1)
        IN  /\ Dims.img_width = width
            /\ Dims.img_height = height
            /\ ~(pc = "failed" /\ err = "IndexError")
            /\ pc = "combined" =>
                /\ Len(heights) = height
                /\ \A r \in 1..height : Len(heights[r]) = width
                /\ \A i \in 1..Len(height_cells) :
                    LastAtCorner(i) =>
                        LET col == (cell_side
                                      * (height_cells[i].xcorner - min_x))
                                   \div cell_size
                            row == cell_side
                                   * (((max_y - height_cells[i].ycorner)
                                          \div cell_size) - 1)
                        IN  \A r \in 1..cell_side : \A c \in 1..cell_side :
                                heights[row + r][col + c]
                                    = height_cells[i].heights[r][c]

\* Tile A at (0, 0) and tile B at (10000, 0), combined: 400 wide, 200 high,
\* A's marker in column 199 and B's in column 399 of row 0.
C1_Witness ==
    /\ pc = "combined"
    /\ Len(height_cells) = 2
    /\ FullTilesOnGrid
    /\ height_cells[1].xcorner = 0 /\ height_cells[1].ycorner = 0
    /\ height_cells[2].xcorner = cell_size /\ height_cells[2].ycorner = 0
    /\ Len(heights) = cell_side
    /\ Len(heights[1]) = 2 * cell_side
    /\ heights[1][cell_side] = Marker(0, 0)
    /\ heights[1][2 * cell_side] = Marker(cell_size, 0)

\* C2: after combineCells of cells that do not overlap, every array
\* position a cell covers holds that cell's value and every position no cell
\* covers holds 0.0.
C2_CoveredOrZero ==
    (pc = "combined" /\ NonOverlapping) =>
        LET st == Starts
        IN  \A r \in 1..Len(heights) : \A c \in 1..Len(heights[r]) :
                LET S == {i \in 1..Len(height_cells) : Covers(st, i, r, c)}
                IN  IF S = {} THEN heights[r][c] = 0
                    ELSE \A i \in S :
                            heights[r][c] = CoveredValue(st, i, r, c)

\* Two cells that do not overlap, combined, with a covered position holding
\* a marker and an uncovered one.
C2_Witness ==
    /\ pc = "combined"
    /\ Len(height_cells) = 2
    /\ NonOverlapping
    /\ \E r \in {1, Len(heights)} : \E c \in {1, Len(heights[r])} :
          \A i \in 1..2 : ~Covers(Starts, i, r, c)
    /\ \E r \in {1, cell_side + 1} : \E c \in {cell_side, 2 * cell_side} :
          /\ r <= Len(heights) /\ c <= Len(heights[r])
          /\ heights[r][c] > 0

Permuted(cells, p) == List([i \in 1..Len(cells) |-> cells[p[i]]])

\* C8: for cells that do not overlap, combineCells gives the same array, or
\* fails alike, for every order of the list.
C8_OrderIndependent ==
    NonOverlapping =>
        \A p \in Permutations(1..Len(height_cells)) :
            /\ pc = "combined" =>
                /\ ~CombineCellsRaises(Permuted(height_cells, p))
                /\ combineCells(Permuted(height_cells, p)) = heights
            /\ (pc = "failed" /\ err = "IndexError") =>
                CombineCellsRaises(Permuted(height_cells, p))

\* Two cells at different corners, listed east first, combined without
\* overlap.
C8_Witness ==
    /\ pc = "combined"
    /\ Len(height_cells) = 2
    /\ NonOverlapping
    /\ height_cells[1].xcorner > height_cells[2].xcorner

\* Every write index of every cell lies in 0..img_height-1 and
\* 0..img_width-1.
WritesInBounds ==
    LET st == Starts
        dims == Dims
    IN  \A i \in 1..Len(height_cells) :
            \A r \in 1..Len(height_cells[i].heights) :
                Len(height_cells[i].heights[r]) > 0 =>
                    /\ 0 <= st[i][2] + r - 1
                    /\ st[i][2] + r - 1 < dims.img_height
                    /\ 0 <= st[i][1]
                    /\ st[i][1] + Len(height_cells[i].heights[r]) - 1
                          < dims.img_width

\* C9: an array that combineCells returned was written only at indices
\* inside it, none of them negative (wrapped); when a write index falls
\* outside, combineCells fails (numpy's IndexError) and returns no array.
C9_WritesInBounds ==
    /\ pc \in {"combined", "scaled", "saved"} => WritesInBounds
    /\ (pc = "failed" /\ err = "IndexError") =>
          /\ heights = <<>>
          /\ ~WritesInBounds

\* A cell with more rows than cell_side made combineCells fail.
C9_Witness ==
    /\ pc = "failed"
    /\ err = "IndexError"
    /\ \E i \in 1..Len(height_cells) :
          Len(height_cells[i].heights) > cell_side

\* C10: the image has width img_width and height img_height, and its pixel
\* (row, col) is heights[row][col].
C10_ImageKeepsGeometry ==
    pc = "saved" =>
        /\ img.width = Dims.img_width
        /\ img.height = Dims.img_height
        /\ \A r \in 1..Len(heights) : \A c \in 1..Len(heights[r]) :
              Pixel(img, r - 1, c - 1) = heights[r][c]

---------------------------------------------------------------------------
(* Properties of scaleHeightData *)

\* The scaled height v = <<n, d>> is the number p / q.
Is(v, p, q) == v[2] # 0 /\ q # 0 /\ v[1] * q = p * v[2]

IsFlat(a) == Cardinality(ArrayValues(a)) = 1

C4_FlatFails ==
    [][(pc = "combined" /\ IsFlat(heights)) =>
          pc' = "failed"]_vars

\* Cell i is the last of the list to write to position (r, c).
LastWriter(st, i, r, c) ==
    /\ Covers(st, i, r, c)
    /\ \A j \in (i + 1)..Len(height_cells) : ~Covers(st, j, r, c)

\* Position (r, c) was last written from a height its cell excludes.
Missing(st, r, c) ==
    \E i \in 1..Len(height_cells) :
        /\ LastWriter(st, i, r, c)
        /\ CoveredValue(st, i, r, c) \in height_cells[i].exclude

\* C6: where combineCells writes a height that the cell's exclude list
\* marks as missing, the array holds neither that height nor 0.0, and the
\* minimum and maximum that scaleHeightData takes are those of the positions
\* that are not missing.
C6_MissingMarked ==
    pc = "combined" =>
        LET st == Starts
            present == {heights[p[1]][p[2]] :
                           p \in {q \in (1..Len(heights))
                                          \X (1..Len(heights[1])) :
                                     ~Missing(st, q[1], q[2])}}
        IN  /\ \A r \in 1..Len(heights) : \A c \in 1..Len(heights[r]) :
                  \A i \in 1..Len(height_cells) :
                      (/\ LastWriter(st, i, r, c)
                       /\ CoveredValue(st, i, r, c)
                              \in height_cells[i].exclude) =>
                          /\ heights[r][c] # CoveredValue(st, i, r, c)
                          /\ heights[r][c] # 0
            /\ present # {} =>
                  /\ MinOf(ArrayValues(heights)) = MinOf(present)
                  /\ MaxOf(ArrayValues(heights)) = MaxOf(present)

---------------------------------------------------------------------------
(* Properties of HeightCell and importAsc *)

\* The number of heights in the rows before row r.
RECURSIVE RowOffset(_, _)
RowOffset(hs, r) ==
    IF r <= 1 THEN 0 ELSE RowOffset(hs, r - 1) + Len(hs[r - 1])

\* C5: flattened has one entry per height, in row-major order; the entry is
\* None exactly where the height is equal to a member of the exclude list
\* and the height itself elsewhere; with an empty exclude list no entry is
\* None.
C5_FlattenedMarksExcluded ==
    \A i \in 1..Len(height_cells) :
        LET cell == height_cells[i]
            flat == flattened(cell)
        IN  /\ Len(flat) = RowOffset(cell.heights, Len(cell.heights) + 1)
            /\ \A r \in 1..Len(cell.heights) :
                  \A c \in 1..Len(cell.heights[r]) :
                      flat[RowOffset(cell.heights, r) + c] =
                          IF \E x \in cell.exclude : x = cell.heights[r][c]
                          THEN None
                          ELSE Some(cell.heights[r][c])
            /\ cell.exclude = {} =>
                  \A k \in 1..Len(flat) : flat[k] # None

\* A cell with two rows whose exclude list marks some of its heights and
\* not others.
C5_Witness ==
    \E i \in 1..Len(height_cells) :
        /\ height_cells[i].exclude # {}
        /\ Len(height_cells[i].heights) = 2
        /\ \E k \in 1..Len(flattened(height_cells[i])) :
              flattened(height_cells[i])[k] = None
        /\ \E k \in 1..Len(flattened(height_cells[i])) :
              flattened(height_cells[i])[k] # None

\* C7: every cell importAsc returns has ysize rows of xsize heights each.
C7_ShapeInvariant ==
    \A i \in 1..Len(height_cells) :
        /\ Len(height_cells[i].heights) = height_cells[i].ysize
        /\ \A r \in 1..Len(height_cells[i].heights) :
              Len(height_cells[i].heights[r]) = height_cells[i].xsize

===========================================================================
